---- MODULE Spec2Model ----
(***************************************************************************)
(* Model of model/movinet_model.py: the MovinetClassifier constructor, its *)
(* get_config / from_config pair, the checkpoint_items property and the    *)
(* registered builder build_movinet_model.                                 *)
(*                                                                         *)
(* A Python dict is a function over strings (the empty dict is the empty   *)
(* function), an optional value is a sequence of length 0 (None) or 1, a   *)
(* tensor or placeholder is a record with a "shape" field, and None inside *)
(* a shape is NoneDim.                                                     *)
(***************************************************************************)
EXTENDS Integers, Sequences, FiniteSets, TLC

\* ------------------------------------------------------------------ bounds
MaxClasses == 2

\* ------------------------------------------------------------ Python values
NoneDim == 0

None == <<>>

Some(v) == <<v>>

EmptyDict == [n \in {} |-> 0]

\* tf.keras.layers.InputSpec(shape=...)
InputSpec(shape) == [shape |-> shape]

\* The serialized (on-disk) form of an InputSpec: a dictionary.
SerializedSpec(shape) == [class_name |-> "InputSpec", config |-> [shape |-> shape]]

\* isinstance(v, dict)
IsDict(v) == "class_name" \in DOMAIN v

\* hasattr(v, 'shape'): a spec, a tensor or a placeholder, not a mapping
HasShape(v) == "shape" \in DOMAIN v

\* tf.keras.layers.deserialize(d)
deserialize(d) == InputSpec(d.config.shape)

\* tf.keras.Input(shape=..., name=...)
Input(shape, name) == [shape |-> <<NoneDim>> \o shape, name |-> name]

\* The default of line 60-62.
DefaultInputSpecs == [image |-> InputSpec(<<NoneDim, NoneDim, NoneDim, NoneDim, 3>>)]

\* `not input_specs`: None or an empty mapping
Falsy(input_specs) == input_specs = None \/ DOMAIN input_specs[1] = {}

\* ------------------------------------------------------------- collaborators
\* The backbone objects of the model: what each returns when called, and the
\* two attributes the constructor reads.  "strict" backbones raise when the
\* 'states' they are handed is a single tensor instead of a mapping.
BackboneObjects ==
  { [id |-> "base", _head_filters |-> 4, _conv_type |-> "3d", strict |-> FALSE,
     endpoints |-> [head |-> [shape |-> <<NoneDim, 1, 1, 1, 4>>]],
     states |-> EmptyDict],
    [id |-> "stream", _head_filters |-> 6, _conv_type |-> "2plus1d", strict |-> TRUE,
     endpoints |-> [head |-> [shape |-> <<NoneDim, 1, 1, 1, 6>>]],
     states |-> [state_buffer |-> [shape |-> <<NoneDim, 2, 1, 1, 6>>],
                 state_frame_count |-> [shape |-> <<NoneDim, 1>>]]],
    [id |-> "headless", _head_filters |-> 4, _conv_type |-> "3d", strict |-> FALSE,
     endpoints |-> [block0 |-> [shape |-> <<NoneDim, 1, 2, 2, 4>>]],
     states |-> EmptyDict] }

\* backbone(dict(image=..., states=...)): raises, or returns (endpoints, states)
BackboneCall(backbone, arg) ==
  IF backbone.strict /\ HasShape(arg.states)
  THEN [raised |-> TRUE, endpoints |-> EmptyDict, states |-> EmptyDict]
  ELSE [raised |-> FALSE, endpoints |-> backbone.endpoints, states |-> backbone.states]

\* movinet_layers.ClassifierHead(...)(x): the logits tensor, one row of
\* num_classes scores per example.
ClassifierHead(head_filters, num_classes, dropout_rate, kernel_initializer, kernel_regularizer, conv_type, x) ==
  [shape |-> <<x.shape[1], num_classes>>,
   input |-> x,
   layer |-> [head_filters |-> head_filters, num_classes |-> num_classes,
              dropout_rate |-> dropout_rate,
              kernel_initializer |-> kernel_initializer,
              kernel_regularizer |-> kernel_regularizer,
              conv_type |-> conv_type]]

\* ---------------------------------------------------------------- constructor
Raise(error, calls) ==
  [ok |-> FALSE, error |-> error, calls |-> calls, model |-> None]

\* Variant: the batch dimension is not stripped from the spec's shape.
BuildInputsFullShape(input_specs) ==
  [name \in DOMAIN input_specs |->
     Input(input_specs[name].shape, "states/" \o name)]

\* lines 75-78
BuildInputs(input_specs) ==
  [name \in DOMAIN input_specs |->
     Input(Tail(input_specs[name].shape), "states/" \o name)]

\* Variant: the batch dimension is not stripped from the state's shape.
StateInputsFullShape(states) ==
  [k \in DOMAIN states |-> Input(states[k].shape, k)]

\* lines 92-96
StateInputs(states) ==
  [k \in DOMAIN states |-> Input(Tail(states[k].shape), k)]

\* Variant: head_filters is passed where num_classes belongs.
HeadOutputWrongClasses(a, x) ==
  ClassifierHead(a.backbone._head_filters, a.backbone._head_filters, a.dropout_rate,
                 a.kernel_initializer, a.kernel_regularizer,
                 a.backbone._conv_type, x)

\* lines 84-90: the classifier head applied to the head feature map
HeadOutput(a, x) ==
  ClassifierHead(a.backbone._head_filters, a.num_classes, a.dropout_rate,
                 a.kernel_initializer, a.kernel_regularizer,
                 a.backbone._conv_type, x)

\* Variant: a missing 'head' falls back to some other endpoint.
HeadEndpointFallback(endpoints) ==
  IF "head" \in DOMAIN endpoints THEN Some(endpoints["head"])
  ELSE IF DOMAIN endpoints = {} THEN None
  ELSE Some(endpoints[CHOOSE k \in DOMAIN endpoints : TRUE])

\* line 82: endpoints['head'], None standing for the KeyError
HeadEndpoint(endpoints) ==
  IF "head" \in DOMAIN endpoints THEN Some(endpoints["head"]) ELSE None

\* Variant: the test of output_states is inverted.
OutputsInverted(x, states, output_states) ==
  IF output_states THEN <<x>> ELSE <<x, states>>

\* line 98
Outputs(x, states, output_states) ==
  IF output_states THEN <<x, states>> ELSE <<x>>

\* MovinetClassifier.__init__
MovinetClassifier(a) ==
  LET input_specs == IF Falsy(a.input_specs) THEN DefaultInputSpecs
                     ELSE a.input_specs[1]
  IN
  IF \E name \in DOMAIN input_specs : ~HasShape(input_specs[name])
  THEN Raise("AttributeError", 0)
  ELSE
  LET inputs == BuildInputs(input_specs)
      states_in == IF "states" \in DOMAIN inputs THEN inputs["states"] ELSE EmptyDict
  IN
  IF "image" \notin DOMAIN inputs
  THEN Raise("KeyError:image", 0)
  ELSE
  LET arg == [image |-> inputs["image"], states |-> states_in]
      ret == BackboneCall(a.backbone, arg)
  IN
  IF ret.raised
  THEN Raise("TypeError", 1)
  ELSE
  IF HeadEndpoint(ret.endpoints) = None
  THEN Raise("KeyError:head", 1)
  ELSE
  LET x == HeadOutput(a, HeadEndpoint(ret.endpoints)[1])
      model_inputs == IF a.output_states
                      THEN [name \in DOMAIN inputs \cup {"states"} |->
                              IF name = "states" THEN StateInputs(ret.states)
                              ELSE inputs[name]]
                      ELSE inputs
  IN
  [ok |-> TRUE, error |-> "", calls |-> 1,
   model |-> Some([_num_classes |-> a.num_classes,
                   _input_specs |-> input_specs,
                   _dropout_rate |-> a.dropout_rate,
                   _kernel_initializer |-> a.kernel_initializer,
                   _kernel_regularizer |-> a.kernel_regularizer,
                   _bias_regularizer |-> a.bias_regularizer,
                   _output_states |-> a.output_states,
                   _backbone |-> a.backbone,
                   inputs |-> model_inputs,
                   outputs |-> Outputs(x, ret.states, a.output_states),
                   backbone_arg |-> arg,
                   ctor |-> a])]

\* Variant: the property hands out a copy of the backbone.
backboneCopy(m) == [m._backbone EXCEPT !.id = "copy"]

\* MovinetClassifier.backbone
backbone(m) == m._backbone

\* MovinetClassifier.checkpoint_items
checkpoint_items(m) == [backbone |-> backbone(m)]

\* MovinetClassifier.get_config
get_config(m) ==
  [backbone |-> m._backbone,
   num_classes |-> m._num_classes,
   input_specs |-> Some(m._input_specs),
   dropout_rate |-> m._dropout_rate,
   kernel_initializer |-> m._kernel_initializer,
   kernel_regularizer |-> m._kernel_regularizer,
   bias_regularizer |-> m._bias_regularizer,
   output_states |-> m._output_states]

\* Variant: the serialized entries are handed on as they are.
DeserializeSpecsSkipped(config) == config

\* Variant: entries that are spec objects already are dropped.
DeserializeSpecsDropsObjects(config) ==
  IF ~Falsy(config.input_specs)
  THEN [config EXCEPT !.input_specs =
          Some([name \in {n \in DOMAIN config.input_specs[1] :
                            IsDict(config.input_specs[1][n])} |->
                  deserialize(config.input_specs[1][name])])]
  ELSE config

\* lines 133-137: the config dictionary after the in-place deserialization
DeserializeSpecs(config) ==
  IF ~Falsy(config.input_specs)
  THEN [config EXCEPT !.input_specs =
          Some([name \in DOMAIN config.input_specs[1] |->
                  IF IsDict(config.input_specs[1][name])
                  THEN deserialize(config.input_specs[1][name])
                  ELSE config.input_specs[1][name]])]
  ELSE config

\* MovinetClassifier.from_config: cls(**config)
from_config(config) == MovinetClassifier(DeserializeSpecs(config))

\* backbones.factory.build_backbone: the backbone the configuration names
build_backbone(input_specs, backbone_config, norm_activation_config, l2_regularizer) ==
  CHOOSE b \in BackboneObjects : b.id = backbone_config.type

\* Variant: the regularizer is passed as bias_regularizer too.
BuilderArgsBiasRegularized(input_specs, model_config, num_classes, l2_regularizer) ==
  [backbone |-> build_backbone(input_specs, model_config.backbone,
                               model_config.norm_activation, l2_regularizer),
   num_classes |-> num_classes,
   input_specs |-> Some([image |-> input_specs]),
   dropout_rate |-> model_config.dropout_rate,
   kernel_initializer |-> "HeNormal",
   kernel_regularizer |-> l2_regularizer,
   bias_regularizer |-> l2_regularizer,
   output_states |-> FALSE]

\* lines 153-164: the constructor arguments build_movinet_model passes
BuilderArgs(input_specs, model_config, num_classes, l2_regularizer) ==
  [backbone |-> build_backbone(input_specs, model_config.backbone,
                               model_config.norm_activation, l2_regularizer),
   num_classes |-> num_classes,
   input_specs |-> Some([image |-> input_specs]),
   dropout_rate |-> model_config.dropout_rate,
   kernel_initializer |-> "HeNormal",
   kernel_regularizer |-> l2_regularizer,
   bias_regularizer |-> None,
   output_states |-> FALSE]

\* build_movinet_model
build_movinet_model(input_specs, model_config, num_classes, l2_regularizer) ==
  MovinetClassifier(BuilderArgs(input_specs, model_config, num_classes, l2_regularizer))

\* @model_factory.register_model_builder('movinet')
RegisteredName == "movinet"

\* ------------------------------------------------------------------- inputs
ImageSpec == InputSpec(<<NoneDim, 2, 4, 4, 3>>)

StateSpec == InputSpec(<<NoneDim, 2, 1, 1, 6>>)

NumClasses == 1..MaxClasses

L2 == Some("l2")

\* dropout_rate (in tenths), kernel_initializer, kernel_regularizer, bias_regularizer
HyperParams ==
  { [dropout_rate |-> 0, kernel_initializer |-> "HeNormal",
     kernel_regularizer |-> None, bias_regularizer |-> L2],
    [dropout_rate |-> 2, kernel_initializer |-> "zeros",
     kernel_regularizer |-> L2, bias_regularizer |-> None] }

InputSpecsArgs ==
  { None,
    Some(EmptyDict),
    Some([image |-> ImageSpec]),
    Some([image |-> ImageSpec, states |-> StateSpec]),
    Some([states |-> StateSpec]),
    Some([image |-> SerializedSpec(ImageSpec.shape)]) }

ModelConfigs ==
  { [backbone |-> [type |-> "base"], norm_activation |-> "relu", dropout_rate |-> 2],
    [backbone |-> [type |-> "stream"], norm_activation |-> "swish", dropout_rate |-> 0],
    [backbone |-> [type |-> "headless"], norm_activation |-> "relu", dropout_rate |-> 0] }

\* The forms in which a saved configuration comes back: any of the input
\* specs serialized to a dictionary, or no input specs at all.
SavedForms(config) ==
  LET specs == IF config.input_specs = None THEN EmptyDict
               ELSE config.input_specs[1]
  IN { [config EXCEPT !.input_specs =
          Some([name \in DOMAIN specs |->
                  IF name \in S THEN SerializedSpec(specs[name].shape)
                  ELSE specs[name]])] : S \in SUBSET DOMAIN specs }
     \cup { [config EXCEPT !.input_specs = None],
            [config EXCEPT !.input_specs = Some(EmptyDict)] }

\* -------------------------------------------------------------------- state
VARIABLES
  registry,   \* the model factory: name -> registered builder
  x,          \* the model the caller constructed or built (None before)
  config,     \* the configuration dictionary the caller holds (None before)
  y,          \* the model the caller rebuilt from a configuration
  last        \* what the last call was given and how it ended

vars == <<registry, x, config, y, last>>

NoCall ==
  [op |-> "", ok |-> TRUE, error |-> "", calls |-> 0, input_specs |-> None,
   backbone |-> "", cfg_in |-> None, args |-> None, build |-> None,
   items |-> EmptyDict]

Init ==
  /\ registry = EmptyDict
  /\ x = None
  /\ config = None
  /\ y = None
  /\ last = NoCall

Imported == RegisteredName \in DOMAIN registry

\* Importing the module runs the decorator of line 141.
Import ==
  /\ ~Imported
  /\ registry' = [n \in DOMAIN registry \cup {RegisteredName} |->
                    IF n = RegisteredName THEN "build_movinet_model" ELSE registry[n]]
  /\ UNCHANGED <<x, config, y, last>>

\* x = MovinetClassifier(backbone, num_classes, ...); a new model under
\* study drops the objects derived from the previous one.
Construct ==
  /\ Imported
  /\ \E b \in BackboneObjects, n \in NumClasses, specs \in InputSpecsArgs,
        h \in HyperParams, o \in BOOLEAN :
       LET a == [backbone |-> b, num_classes |-> n, input_specs |-> specs,
                 dropout_rate |-> h.dropout_rate,
                 kernel_initializer |-> h.kernel_initializer,
                 kernel_regularizer |-> h.kernel_regularizer,
                 bias_regularizer |-> h.bias_regularizer,
                 output_states |-> o]
           r == MovinetClassifier(a)
       IN /\ last' = [NoCall EXCEPT !.op = "construct", !.ok = r.ok,
                                    !.error = r.error, !.calls = r.calls,
                                    !.input_specs = Some(specs), !.backbone = b.id]
          /\ IF r.ok
             THEN x' = r.model /\ config' = None /\ y' = None
             ELSE UNCHANGED <<x, config, y>>
  /\ UNCHANGED registry

\* x = model_factory.build_model('movinet', ...): the registered builder
Build ==
  /\ Imported
  /\ registry[RegisteredName] = "build_movinet_model"
  /\ \E s \in {ImageSpec, DefaultInputSpecs.image}, mc \in ModelConfigs,
        n \in NumClasses, l2 \in {None, L2} :
       LET r == build_movinet_model(s, mc, n, l2)
       IN /\ last' = [NoCall EXCEPT !.op = "build", !.ok = r.ok,
                                    !.error = r.error, !.calls = r.calls,
                                    !.input_specs = Some(Some([image |-> s])),
                                    !.backbone = mc.backbone.type,
                                    !.build = Some([input_specs |-> s, model_config |-> mc,
                                                    num_classes |-> n, l2_regularizer |-> l2])]
          /\ IF r.ok
             THEN x' = r.model /\ config' = None /\ y' = None
             ELSE UNCHANGED <<x, config, y>>
  /\ UNCHANGED registry

\* config = m.get_config()
GetConfig ==
  /\ \E m \in {x, y} :
       /\ m # None
       /\ config' = Some(get_config(m[1]))
  /\ last' = [NoCall EXCEPT !.op = "get_config"]
  /\ UNCHANGED <<registry, x, y>>

\* y = MovinetClassifier.from_config(config), the configuration being the
\* one held or a saved form of it; the dictionary is updated in place.
FromConfig ==
  /\ config # None
  /\ \E cfg \in SavedForms(config[1]) :
       LET r == from_config(cfg)
       IN /\ last' = [NoCall EXCEPT !.op = "from_config", !.ok = r.ok,
                                    !.error = r.error, !.calls = r.calls,
                                    !.input_specs = Some(cfg.input_specs),
                                    !.backbone = cfg.backbone.id,
                                    !.cfg_in = Some(cfg),
                                    !.args = Some(DeserializeSpecs(cfg))]
          /\ config' = Some(DeserializeSpecs(cfg))
          /\ y' = IF r.ok THEN r.model ELSE y
  /\ UNCHANGED <<registry, x>>

\* m.checkpoint_items
CheckpointItems ==
  /\ \E m \in {x, y} :
       /\ m # None
       /\ last' = [NoCall EXCEPT !.op = "checkpoint_items",
                                 !.items = checkpoint_items(m[1]),
                                 !.backbone = m[1].ctor.backbone.id]
  /\ UNCHANGED <<registry, x, config, y>>

Next ==
  \/ Import
  \/ Construct
  \/ Build
  \/ GetConfig
  \/ FromConfig
  \/ CheckpointItems

Spec == Init /\ [][Next]_vars

\* ------------------------------------------------------------------- claims
\* The models the caller holds.
Constructed == {m[1] : m \in {x, y} \ {None}}

ConstructorOps == {"construct", "build", "from_config"}

\* C1: a constructed model outputs the pair (classification tensor, state
\* mapping returned by the backbone) exactly when output_states was true,
\* and the single classification tensor otherwise.
C1_OutputContract ==
  \A m \in Constructed :
    /\ (Len(m.outputs) = 2) <=> m.ctor.output_states
    /\ (Len(m.outputs) = 1) <=> ~m.ctor.output_states
    /\ m.outputs[1] = HeadOutput(m.ctor, m.ctor.backbone.endpoints["head"])
    /\ m.ctor.output_states =>
         m.outputs[2] = BackboneCall(m.ctor.backbone, m.backbone_arg).states

C1_Witness ==
  /\ last.op = "construct" /\ last.ok
  /\ x # None
  /\ x[1].ctor.output_states /\ Len(x[1].outputs) = 2
  /\ DOMAIN x[1].outputs[2] # {}

\* C2: rebuilding a model from its own configuration succeeds and yields a
\* model with the same eight configuration fields and the same output
\* contract.
C2_RoundTrip ==
  [][\A m \in {x, y} :
       (m # None /\ last'.op = "from_config"
          /\ last'.cfg_in = Some(get_config(m[1])))
       => /\ last'.ok
          /\ y' # None
          /\ get_config(y'[1]) = get_config(m[1])
          /\ DOMAIN get_config(y'[1]) =
               {"backbone", "num_classes", "input_specs", "dropout_rate",
                "kernel_initializer", "kernel_regularizer", "bias_regularizer",
                "output_states"}
          /\ Len(y'[1].outputs) = Len(m[1].outputs)]_vars

C2_Witness ==
  /\ last.op = "from_config" /\ last.ok
  /\ x # None /\ y # None
  /\ last.cfg_in = Some(get_config(x[1]))
  /\ x[1]._input_specs # DefaultInputSpecs
  /\ x[1]._output_states
  /\ get_config(y[1]) = get_config(x[1])

\* C3: from_config hands the constructor the configuration with every
\* serialized input spec replaced by the spec object it describes, every
\* other entry and field as it was, and deserializes nothing when
\* input_specs is None or empty.
C3_FromConfigArgs ==
  last.op = "from_config" =>
    LET c == last.cfg_in[1]
        a == last.args[1]
    IN /\ \A f \in DOMAIN c \ {"input_specs"} : a[f] = c[f]
       /\ DOMAIN a = DOMAIN c
       /\ Falsy(c.input_specs) => a.input_specs = c.input_specs
       /\ ~Falsy(c.input_specs) =>
            /\ a.input_specs # None
            /\ DOMAIN a.input_specs[1] = DOMAIN c.input_specs[1]
            /\ \A name \in DOMAIN c.input_specs[1] :
                 IF IsDict(c.input_specs[1][name])
                 THEN /\ ~IsDict(a.input_specs[1][name])
                      /\ a.input_specs[1][name] =
                           [shape |-> c.input_specs[1][name].config.shape]
                 ELSE a.input_specs[1][name] = c.input_specs[1][name]
       /\ last.ok => y # None /\ y[1].ctor = a

C3_Witness ==
  /\ last.op = "from_config" /\ last.ok
  /\ ~Falsy(last.cfg_in[1].input_specs)
  /\ DOMAIN last.cfg_in[1].input_specs[1] = {"image", "states"}
  /\ IsDict(last.cfg_in[1].input_specs[1]["image"])
  /\ ~IsDict(last.cfg_in[1].input_specs[1]["states"])
  /\ y[1]._input_specs = [image |-> ImageSpec, states |-> StateSpec]

\* C4: the 'states' value handed to the backbone is the set of state
\* placeholders the constructed model exposes as its 'states' input.
C4_StatesReachBackbone ==
  \A m \in Constructed :
    /\ m.backbone_arg.image = m.inputs["image"]
    /\ "states" \in DOMAIN m.inputs => m.backbone_arg.states = m.inputs["states"]

\* C5: the builder is registered under 'movinet', and the model it returns
\* is built on the factory's backbone with the given num_classes, input
\* specs {'image': input_specs}, the configured dropout rate, the given
\* kernel regularizer, no bias regularizer and a single-tensor output.
C5_Builder ==
  /\ Imported => registry = [movinet |-> "build_movinet_model"]
  /\ (last.op = "build" /\ last.ok) =>
       LET b == last.build[1]
           c == get_config(x[1])
       IN /\ c.backbone.id = b.model_config.backbone.type
          /\ c.backbone \in BackboneObjects
          /\ checkpoint_items(x[1]).backbone = c.backbone
          /\ c.num_classes = b.num_classes
          /\ c.input_specs = Some([image |-> b.input_specs])
          /\ c.dropout_rate = b.model_config.dropout_rate
          /\ c.kernel_regularizer = b.l2_regularizer
          /\ c.bias_regularizer = None
          /\ c.output_states = FALSE
          /\ Len(x[1].outputs) = 1

C5_Witness ==
  /\ last.op = "build" /\ last.ok
  /\ last.build[1].l2_regularizer # None
  /\ last.build[1].model_config.backbone.type = "stream"
  /\ x[1]._kernel_regularizer = L2

\* C6: checkpoint_items of a model is the mapping with the single key
\* 'backbone' holding the backbone the model was constructed with, whatever
\* calls followed, and a model rebuilt from get_config exposes the same
\* backbone object.
C6_CheckpointItems ==
  /\ \A m \in Constructed :
       /\ DOMAIN checkpoint_items(m) = {"backbone"}
       /\ checkpoint_items(m).backbone = m.ctor.backbone
  /\ last.op = "checkpoint_items" =>
       /\ DOMAIN last.items = {"backbone"}
       /\ last.items.backbone.id = last.backbone
       /\ last.items.backbone \in BackboneObjects
  /\ (last.op = "from_config" /\ last.ok /\ x # None
        /\ last.cfg_in = Some(get_config(x[1]))) =>
       checkpoint_items(y[1]) = checkpoint_items(x[1])

C6_Witness ==
  /\ last.op = "checkpoint_items"
  /\ x # None /\ y # None /\ config # None
  /\ last.items = checkpoint_items(y[1])
  /\ checkpoint_items(y[1]) = checkpoint_items(x[1])
  /\ last.items.backbone.id = "stream"

\* C7: the classification output of a constructed model has per-example
\* shape (num_classes,): the head is created with the num_classes given and
\* applied to the backbone's 'head' endpoint, whatever output_states is.
C7_OutputShape ==
  \A m \in Constructed :
    /\ Tail(m.outputs[1].shape) = <<m.ctor.num_classes>>
    /\ m.outputs[1].layer.num_classes = m.ctor.num_classes
    /\ m.outputs[1].input = m.ctor.backbone.endpoints["head"]

C7_Witness ==
  /\ last.op = "construct" /\ last.ok
  /\ x # None
  /\ x[1].ctor.num_classes = MaxClasses
  /\ x[1].ctor.backbone._head_filters # MaxClasses
  /\ Tail(x[1].outputs[1].shape) = <<MaxClasses>>
  /\ x[1].ctor.output_states

\* C8: a failing construction produces no model and invokes the backbone at
\* most once: not at all when a non-empty input_specs lacks 'image', exactly
\* once when the endpoints lack 'head'.
C8_FailureState ==
  last.op \in ConstructorOps =>
    /\ last.calls <= 1
    /\ LET specs == last.input_specs[1]
       IN (~Falsy(specs) /\ "image" \notin DOMAIN specs[1]) =>
            ~last.ok /\ last.calls = 0
    /\ (last.backbone = "headless" /\ last.calls = 1) =>
         ~last.ok /\ last.error = "KeyError:head"
    /\ last.error = "KeyError:head" => last.calls = 1 /\ ~last.ok
    /\ last.ok <=> last.error = ""
    /\ last.ok => last.calls = 1

C8_NoModelOnFailure ==
  (last'.op \in ConstructorOps /\ ~last'.ok) => x' = x /\ y' = y

C8_Failures == []C8_FailureState /\ [][C8_NoModelOnFailure]_vars

C8_Witness ==
  /\ last.op = "construct" /\ ~last.ok
  /\ last.backbone = "headless" /\ last.error = "KeyError:head"
  /\ last.calls = 1
  /\ x # None

C10_Chainable ==
  \A m \in Constructed :
    m.ctor.output_states =>
      /\ "states" \in DOMAIN m.inputs
      /\ DOMAIN m.inputs["states"] = DOMAIN m.outputs[2]
      /\ \A k \in DOMAIN m.outputs[2] :
           /\ HasShape(m.inputs["states"][k])
           /\ Tail(m.inputs["states"][k].shape) = Tail(m.outputs[2][k].shape)
           /\ Len(m.inputs["states"][k].shape) = Len(m.outputs[2][k].shape)

C10_Witness ==
  /\ x # None
  /\ x[1].ctor.output_states
  /\ DOMAIN x[1].outputs[2] = {"state_buffer", "state_frame_count"}
  /\ x[1].inputs["states"]["state_buffer"].shape = <<NoneDim, 2, 1, 1, 6>>

====
